---- MODULE Spec2Model ----
(***************************************************************************)
(* Conversion of a spaCy analysis into a UD document (src/main.py).        *)
(*                                                                         *)
(* State: the raw analyses still to be converted (pending), the analysis   *)
(* under conversion (raw), the UdDoc being built (doc), the word_nodes of  *)
(* the SentenceNode under construction (words), the class-level counter    *)
(* and registry of WordNode (wn_count, all_wn), and the position of the    *)
(* conversion (pc, sno, k, exc).                                           *)
(*                                                                         *)
(* A word node is a record; a reference to a word node of the sentence is  *)
(* its slot in word_nodes (1..Len), and None is 0.  The field index is the *)
(* value the code stores in WordNode.index, which is not the slot.         *)
(***************************************************************************)
EXTENDS Integers, Sequences, FiniteSets, TLC

VARIABLES pending, raw, doc, words, sno, pc, k, exc, wn_count, all_wn

vars == <<pending, raw, doc, words, sno, pc, k, exc, wn_count, all_wn>>

(***************************************************************************)
(* Bounds of the model.                                                    *)
(***************************************************************************)
\* longest raw sentence
MaxWords == 3
\* most sentences in one raw analysis
MaxSents == 2
\* most entity spans in one raw sentence
MaxEnts == 2
\* most conversion calls in one process
MaxCalls == 2
\* longest raw sentence of the analyses over the whole label set
MaxRemapWords == 2
None == 0

(***************************************************************************)
(* The raw analysis, as the code reads it from spaCy.                      *)
(* A token of a sentence span keeps its document-level index (Token.i),    *)
(* its head's document-level index, its document-level character offset    *)
(* (Token.idx), and dep_, pos_, lemma_, morph and the length of its text.  *)
(***************************************************************************)
NoMorph == {}
Perf == {<<"Aspect", "Perf">>}

Tok(dep, pos, lemma, morph) ==
    [dep |-> dep, pos |-> pos, lemma |-> lemma, morph |-> morph, len |-> 1, sp |-> 1]

TokL(dep, pos, lemma, len, sp) ==
    [dep |-> dep, pos |-> pos, lemma |-> lemma, morph |-> NoMorph, len |-> len, sp |-> sp]

RECURSIVE Climbs(_, _, _)
\* following the head links from token j reaches the self-headed token
Climbs(h, j, fuel) ==
    IF h[j] = j THEN TRUE
    ELSE IF fuel = 0 THEN FALSE
    ELSE Climbs(h, h[j], fuel - 1)

\* head links of an n-token sentence: one self-headed token, no cycle
Heads(n) ==
    {h \in [1..n -> 1..n] :
        /\ Cardinality({j \in 1..n : h[j] = j}) = 1
        /\ \A j \in 1..n : Climbs(h, j, n)}

\* entity spans of an n-token sentence: token ranges that do not overlap,
\* in sentence order (Doc.ents)
RECURSIVE EntsFrom(_, _, _)
EntsFrom(from, n, most) ==
    {<<>>} \cup
    (IF most = 0 THEN {}
     ELSE UNION {UNION {{<<[a |-> a, b |-> b, label |-> "PERSON"]>> \o rest :
                            rest \in EntsFrom(b + 1, n, most - 1)} :
                        b \in a..n} : a \in from..n})

\* the sentences of n tokens whose root has a profile of RootP and whose
\* other tokens have a profile of P, with at most `most` entity spans
Bodies(n, RootP, P, most) ==
    UNION {LET r == CHOOSE j \in 1..n : h[j] = j
           IN {[h |-> h,
                a |-> [j \in 1..n |-> IF j = r THEN rp ELSE a[j]],
                ents |-> e] :
                  rp \in RootP,
                  a \in [(1..n) \ {r} -> P],
                  e \in EntsFrom(1, n, most)} :
           h \in Heads(n)}

RECURSIVE TokensBefore(_, _)
TokensBefore(bodies, s) ==
    IF s = 1 THEN 0 ELSE TokensBefore(bodies, s - 1) + Len(bodies[s - 1].a)

RECURSIVE CharsUpTo(_, _)
\* characters taken by the first j tokens of a sentence (text and spacing)
CharsUpTo(a, j) ==
    IF j = 0 THEN 0 ELSE CharsUpTo(a, j - 1) + a[j].len + a[j].sp

RECURSIVE CharsBefore(_, _)
CharsBefore(bodies, s) ==
    IF s = 1 THEN 0
    ELSE CharsBefore(bodies, s - 1) + CharsUpTo(bodies[s - 1].a, Len(bodies[s - 1].a))

\* the raw analysis made of the given sentences: sp_doc.sents
RawDoc(bodies) ==
    [s \in 1..Len(bodies) |->
        LET b == bodies[s]
            toff == TokensBefore(bodies, s)
            coff == CharsBefore(bodies, s)
            idx(j) == coff + CharsUpTo(b.a, j - 1)
        IN [toks |-> [j \in 1..Len(b.a) |->
                        [i |-> toff + j - 1,
                         head_i |-> toff + b.h[j] - 1,
                         dep_ |-> b.a[j].dep,
                         pos_ |-> b.a[j].pos,
                         lemma_ |-> b.a[j].lemma,
                         morph |-> b.a[j].morph,
                         idx |-> idx(j),
                         len |-> b.a[j].len]],
            ents |-> [e \in 1..Len(b.ents) |->
                        [start_char |-> idx(b.ents[e].a),
                         end_char |-> idx(b.ents[e].b) + b.a[b.ents[e].b].len,
                         label_ |-> b.ents[e].label]]]]

\* sentences of at most MaxWords tokens
Sentences(RootP, P, most) ==
    UNION {Bodies(n, RootP, P, most) : n \in 1..MaxWords}

\* a one-token sentence standing before the sentence of interest
Opener == [h |-> <<1>>, a |-> <<Tok("ROOT", "INTJ", "x", NoMorph)>>, ents |-> <<>>]

RECURSIVE Openers(_)
Openers(n) == IF n = 0 THEN <<>> ELSE <<Opener>> \o Openers(n - 1)

\* analyses of at most MaxSents sentences, the last one drawn from S
Docs(S) ==
    {RawDoc(Openers(n) \o <<b>>) : n \in 0..(MaxSents - 1), b \in S}

(***************************************************************************)
(* Word nodes.                                                             *)
(***************************************************************************)
NoNer == [words |-> <<>>, span |-> <<0, 0>>, type |-> ""]

\* WordNode.__init__
WordNode(index, id) ==
    [wn_id |-> id,
     index |-> index,
     lemma |-> "",
     upos |-> "",
     features |-> {},
     span |-> <<0, 0>>,
     ner |-> NoNer,
     ner_head_word |-> None,
     dependency_relation |-> "",
     governor |-> None,
     governor_word |-> None]

SetDep(ws, w, dep) == [ws EXCEPT ![w].dependency_relation = dep]

SetGovernor(ws, w, ind, gw) ==
    [ws EXCEPT ![w].governor = ind, ![w].governor_word = gw]

SetUpos(ws, w, pos) == [ws EXCEPT ![w].upos = pos]

Ok(ws) == [exc |-> "", ws |-> ws]

Raise(e, ws) == [exc |-> e, ws |-> ws]

\* dep_dict with one fault: dobj is left as it is
dep_dict_dobj_kept(s_dep) ==
    CASE s_dep = "dative" -> "iobj"
      [] s_dep = "nsubjpass" -> "nsubj:pass"
      [] s_dep = "csubjpass" -> "csubj:pass"
      [] s_dep = "ROOT" -> "root"
      [] s_dep = "auxpass" -> "aux:pass"
      [] s_dep = "preconj" -> "pre:conj"
      [] s_dep = "prt" -> "compound:prt"
      [] s_dep = "predet" -> "det:predet"
      [] s_dep = "poss" -> "nmod:poss"
      [] s_dep = "relcl" -> "acl:relcl"
      [] s_dep = "neg" -> "advmod"
      [] s_dep = "quantmod" -> "compound"
      [] s_dep = "parataxis" -> "prataxis"
      [] OTHER -> s_dep

\* dep_dict.get(s_dep, s_dep)
dep_dict(s_dep) ==
    CASE s_dep = "dobj" -> "obj"
      [] s_dep = "dative" -> "iobj"
      [] s_dep = "nsubjpass" -> "nsubj:pass"
      [] s_dep = "csubjpass" -> "csubj:pass"
      [] s_dep = "ROOT" -> "root"
      [] s_dep = "auxpass" -> "aux:pass"
      [] s_dep = "preconj" -> "pre:conj"
      [] s_dep = "prt" -> "compound:prt"
      [] s_dep = "predet" -> "det:predet"
      [] s_dep = "poss" -> "nmod:poss"
      [] s_dep = "relcl" -> "acl:relcl"
      [] s_dep = "neg" -> "advmod"
      [] s_dep = "quantmod" -> "compound"
      [] s_dep = "parataxis" -> "prataxis"
      [] OTHER -> s_dep

spacy_to_ud_token(word_node, spacy_token) ==
    [word_node EXCEPT
        !.upos = spacy_token.pos_,
        !.lemma = spacy_token.lemma_,
        !.dependency_relation = dep_dict(spacy_token.dep_),
        !.governor = IF spacy_token.head_i = spacy_token.i THEN 0
                     ELSE spacy_token.head_i + 1,
        !.span = <<spacy_token.idx, spacy_token.idx + spacy_token.len>>,
        !.features = spacy_token.morph]

RECURSIVE add_governor_from(_, _)
\* the loop of add_governor_word from slot w on
add_governor_from(ws, w) ==
    IF w > Len(ws) THEN Ok(ws)
    ELSE LET gov_ind == ws[w].governor
         IN IF gov_ind > 0
            THEN IF gov_ind > Len(ws) THEN Raise("IndexError", ws)
                 ELSE add_governor_from([ws EXCEPT ![w].governor_word = gov_ind], w + 1)
            ELSE add_governor_from(ws, w + 1)

add_governor_word(ws) == add_governor_from(ws, 1)

(***************************************************************************)
(* Shared helpers of the rule engine.                                      *)
(***************************************************************************)
NOMINAL == {"NOUN", "PRON", "PROPN"}

REDIRECTED == {"prep", "attr", "advcl", "advmod", "acomp", "xcomp", "dep", "acl",
               "nsubj", "obj", "csubj", "ccomp", "mark", "cop", "npadvmod", "conj",
               "prataxis", "punct", "cc", "nsubj:outer", "csubj:outer"}

SUBJECTS == {"nsubj", "csubj", "nsubj:pass", "csubj:pass", "nsubj:outer",
             "csubj:outer"}

\* the first slot of S, or None
First(S) == IF S = {} THEN None ELSE CHOOSE j \in S : \A i \in S : j <= i

\* find_governed: the first word governed by word_node with relation dep
find_governed(ws, word_node, dep) ==
    First({j \in 1..Len(ws) :
             /\ ws[j].governor_word = word_node
             /\ ws[j].dependency_relation = dep})

find_subj(ws, word_node) ==
    First({j \in 1..Len(ws) :
             /\ ws[j].governor_word = word_node
             /\ ws[j].dependency_relation \in SUBJECTS})

redirect_dependants(ws, from_node, to_node) ==
    [j \in 1..Len(ws) |->
        IF /\ j # from_node
           /\ j # to_node
           /\ ws[j].governor_word = from_node
           /\ ws[j].dependency_relation \in REDIRECTED
        THEN [ws[j] EXCEPT !.governor = ws[to_node].index, !.governor_word = to_node]
        ELSE ws[j]]

\* make_copula with one fault: the head takes the governor of "be" but not
\* its relation
make_copula_governor_only(ws, head_node, be_node) ==
    LET expl_node == find_governed(ws, be_node, "expl")
    IN IF expl_node # None /\ ws[expl_node].lemma = "there"
       THEN [ok |-> FALSE, ws |-> ws]
       ELSE LET s1 == SetGovernor(ws, head_node, ws[be_node].governor,
                                  ws[be_node].governor_word)
                s3 == SetGovernor(s1, be_node, s1[head_node].index, head_node)
                s4 == SetDep(s3, be_node, "cop")
                s5 == SetUpos(s4, be_node, "AUX")
            IN [ok |-> TRUE, ws |-> redirect_dependants(s5, be_node, head_node)]

\* make_copula: [ok |-> the value returned, ws |-> the words afterwards]
make_copula(ws, head_node, be_node) ==
    LET expl_node == find_governed(ws, be_node, "expl")
    IN IF expl_node # None /\ ws[expl_node].lemma = "there"
       THEN [ok |-> FALSE, ws |-> ws]
       ELSE LET s1 == SetGovernor(ws, head_node, ws[be_node].governor,
                                  ws[be_node].governor_word)
                s2 == SetDep(s1, head_node, s1[be_node].dependency_relation)
                s3 == SetGovernor(s2, be_node, s2[head_node].index, head_node)
                s4 == SetDep(s3, be_node, "cop")
                s5 == SetUpos(s4, be_node, "AUX")
            IN [ok |-> TRUE, ws |-> redirect_dependants(s5, be_node, head_node)]

make_passive(ws, be_node, verb_node) ==
    LET nsubj == find_governed(ws, be_node, "nsubj")
        subj_node == IF nsubj # None THEN nsubj
                     ELSE find_governed(ws, be_node, "csubj")
        rel == IF nsubj # None THEN "nsubj:pass" ELSE "csubj:pass"
        s1 == IF subj_node # None
              THEN SetDep(SetGovernor(ws, subj_node, ws[verb_node].index, verb_node),
                          subj_node, rel)
              ELSE ws
        s2 == SetGovernor(s1, verb_node, s1[be_node].governor,
                          s1[be_node].governor_word)
        s3 == SetDep(s2, verb_node, s2[be_node].dependency_relation)
        s4 == SetGovernor(s3, be_node, s3[verb_node].index, verb_node)
    IN SetDep(s4, be_node, "aux:pass")

RECURSIVE prep_walk_through_adverbs(_, _, _, _)
\* prep_walk with one fault: an adverb on the way up is collected as if it
\* were a preposition
prep_walk_through_adverbs(ws, x, prep_nodes, fuel) ==
    IF x = None THEN [exc |-> "AttributeError", head |-> None, prep_nodes |-> prep_nodes]
    ELSE IF ws[x].dependency_relation \in {"prep", "advmod"}
         THEN IF fuel = 0
              THEN [exc |-> "NonTermination", head |-> None, prep_nodes |-> prep_nodes]
              ELSE prep_walk_through_adverbs(ws, ws[x].governor_word,
                                             Append(prep_nodes, x), fuel - 1)
         ELSE [exc |-> "", head |-> x, prep_nodes |-> prep_nodes]

RECURSIVE prep_walk(_, _, _, _)
\* the while loop of prep_chain; a walk that comes back to a word it has
\* collected never ends
prep_walk(ws, x, prep_nodes, fuel) ==
    IF x = None THEN [exc |-> "AttributeError", head |-> None, prep_nodes |-> prep_nodes]
    ELSE IF ws[x].dependency_relation = "prep"
         THEN IF fuel = 0
              THEN [exc |-> "NonTermination", head |-> None, prep_nodes |-> prep_nodes]
              ELSE prep_walk(ws, ws[x].governor_word, Append(prep_nodes, x), fuel - 1)
         ELSE [exc |-> "", head |-> x, prep_nodes |-> prep_nodes]

prep_chain(ws, word_node) ==
    LET x == ws[word_node].governor_word
    IN IF x = None
       THEN [exc |-> "AttributeError", head |-> None, prep_nodes |-> <<>>]
       ELSE IF ws[x].dependency_relation \in {"iobj", "agent"}
            THEN [exc |-> "", head |-> ws[x].governor_word, prep_nodes |-> <<x>>]
            ELSE prep_walk(ws, x, <<>>, Len(ws))

(***************************************************************************)
(* The per-label rules.  Each takes the words and the slot of the visited  *)
(* word and gives [exc |-> the exception raised or "", ws |-> the words].  *)
(* Reading an attribute of None raises AttributeError.                     *)
(***************************************************************************)
aux_to_ud(ws, word_node) ==
    IF ws[word_node].upos = "PART"
    THEN LET s1 == SetDep(ws, word_node, "mark")
             gov_node == s1[word_node].governor_word
         IN IF gov_node = None THEN Raise("AttributeError", s1)
            ELSE IF s1[gov_node].dependency_relation = "acl:relcl"
                 THEN Ok(SetDep(s1, gov_node, "acl"))
                 ELSE Ok(s1)
    ELSE Ok(ws)

oprd_to_ud(ws, word_node) ==
    IF ws[word_node].upos \in NOMINAL
    THEN Ok(SetDep(ws, word_node, "obj"))
    ELSE Ok(SetDep(ws, word_node, "advcl"))

amod_to_ud(ws, word_node) ==
    LET gov_node == ws[word_node].governor_word
    IN IF gov_node = None THEN Raise("AttributeError", ws)
       ELSE IF ws[gov_node].upos = "VERB"
            THEN Ok(SetDep(ws, word_node, "xcomp"))
            ELSE Ok(ws)

\* nmod_to_ud with one fault: the other dependants of the number stay with it
nmod_to_ud_no_redirect(ws, word_node) ==
    LET gov_node == ws[word_node].governor_word
    IN IF ws[word_node].lemma # "$" THEN Ok(ws)
       ELSE IF gov_node = None THEN Raise("AttributeError", ws)
       ELSE IF ws[gov_node].upos # "NUM" THEN Ok(ws)
       ELSE LET s1 == SetDep(ws, word_node, ws[gov_node].dependency_relation)
                s2 == SetGovernor(s1, word_node, s1[gov_node].governor,
                                  s1[gov_node].governor_word)
                s3 == SetDep(s2, gov_node, "nummod")
            IN Ok(SetGovernor(s3, gov_node, s3[word_node].index, word_node))

nmod_to_ud(ws, word_node) ==
    LET gov_node == ws[word_node].governor_word
    IN IF ws[word_node].lemma # "$" THEN Ok(ws)
       ELSE IF gov_node = None THEN Raise("AttributeError", ws)
       ELSE IF ws[gov_node].upos # "NUM" THEN Ok(ws)
       ELSE LET s1 == SetDep(ws, word_node, ws[gov_node].dependency_relation)
                s2 == SetGovernor(s1, word_node, s1[gov_node].governor,
                                  s1[gov_node].governor_word)
                s3 == SetDep(s2, gov_node, "nummod")
                s4 == SetGovernor(s3, gov_node, s3[word_node].index, word_node)
            IN Ok(redirect_dependants(s4, gov_node, word_node))

nummod_to_ud(ws, word_node) ==
    LET gov_node == ws[word_node].governor_word
    IN IF gov_node = None THEN Raise("AttributeError", ws)
       ELSE IF /\ ws[gov_node].upos = "NOUN"
               /\ ws[gov_node].index = ws[word_node].index - 1
            THEN Ok(SetDep(ws, word_node, "nmod"))
            ELSE Ok(ws)

advcl_to_ud(ws, word_node) ==
    LET gov_node == ws[word_node].governor_word
    IN IF gov_node = None THEN Raise("AttributeError", ws)
       ELSE IF ws[gov_node].lemma = "be" /\ find_subj(ws, word_node) # None
            THEN LET s1 == make_copula(ws, word_node, gov_node).ws
                     csubj_node == find_governed(s1, word_node, "csubj")
                 IN IF csubj_node # None /\ s1[csubj_node].upos = "VERB"
                    THEN Ok(SetDep(s1, csubj_node, "csubj:outer"))
                    ELSE Ok(s1)
            ELSE IF /\ ws[gov_node].upos \in NOMINAL
                    /\ find_governed(ws, gov_node, "cop") = None
                 THEN Ok(SetDep(ws, word_node, "acl"))
                 ELSE Ok(ws)

comp_to_ud(ws, word_node) ==
    LET gov_node == ws[word_node].governor_word
    IN IF gov_node = None THEN Raise("AttributeError", ws)
       ELSE LET subj_node == find_subj(ws, gov_node)
            IN IF ws[gov_node].lemma = "be"
               THEN LET s1 == make_copula(ws, word_node, gov_node).ws
                    IN IF subj_node # None
                       THEN Ok(SetDep(s1, subj_node,
                                      s1[subj_node].dependency_relation \o ":outer"))
                       ELSE Ok(s1)
               ELSE IF find_governed(ws, gov_node, "cop") # None
                    THEN IF subj_node # None /\ ws[subj_node].lemma = "it"
                         THEN Ok(SetDep(SetDep(ws, subj_node, "expl"), word_node, "csubj"))
                         ELSE Ok(ws)
                    ELSE Ok(ws)

RECURSIVE pobj_preps_adverb_left(_, _, _, _)
\* pobj_preps with one fault: the adverb of a preposition stays with it
pobj_preps_adverb_left(ws, word_node, prep_nodes, i) ==
    IF i > Len(prep_nodes) THEN ws
    ELSE LET prep_node == prep_nodes[i]
             s1 == SetGovernor(ws, prep_node, ws[word_node].index, word_node)
             s2 == SetDep(s1, prep_node, "case")
         IN pobj_preps_adverb_left(s2, word_node, prep_nodes, i + 1)

RECURSIVE pobj_preps(_, _, _, _)
\* the loop of pobj_to_ud over prep_nodes, from its i-th element on
pobj_preps(ws, word_node, prep_nodes, i) ==
    IF i > Len(prep_nodes) THEN ws
    ELSE LET prep_node == prep_nodes[i]
             s1 == SetGovernor(ws, prep_node, ws[word_node].index, word_node)
             s2 == SetDep(s1, prep_node, "case")
             adv_node == find_governed(s2, prep_node, "advmod")
             s3 == IF adv_node # None
                   THEN SetGovernor(s2, adv_node, s2[word_node].index, word_node)
                   ELSE s2
         IN pobj_preps(s3, word_node, prep_nodes, i + 1)

\* pobj_to_ud once the chain is known not to be empty
pobj_with_chain(ws, word_node, gov_node, prep_nodes) ==
    IF gov_node = None THEN Raise("AttributeError", ws)
    ELSE LET cop == IF ws[gov_node].lemma = "be"
                    THEN make_copula(ws, word_node, gov_node)
                    ELSE [ok |-> FALSE, ws |-> ws]
             prep_node == prep_nodes[1]
             prep_dep == ws[prep_node].dependency_relation
             dep == IF prep_dep = "prep"
                    THEN (IF ws[gov_node].upos \in NOMINAL THEN "nmod" ELSE "obl")
                    ELSE IF prep_dep = "iobj" THEN "obl"
                    ELSE IF prep_dep = "agent" THEN "obl:agent"
                    ELSE ""
         IN IF cop.ok THEN Ok(pobj_preps(cop.ws, word_node, prep_nodes, 1))
            ELSE IF dep = "" THEN Ok(ws)
            ELSE LET s1 == SetDep(ws, word_node, dep)
                     s2 == SetGovernor(s1, word_node, s1[gov_node].index, gov_node)
                 IN Ok(pobj_preps(s2, word_node, prep_nodes, 1))

\* pobj_to_ud with one fault: the return after "pobj without preps" is missing,
\* so the copula test runs on the head and prep_nodes[0] is read
pobj_to_ud_no_return(ws, word_node) ==
    LET c == prep_chain(ws, word_node)
    IN IF c.exc # "" THEN Raise(c.exc, ws)
       ELSE IF c.prep_nodes = <<>>
            THEN LET cop == IF ws[c.head].lemma = "be"
                            THEN make_copula(ws, word_node, c.head)
                            ELSE [ok |-> FALSE, ws |-> ws]
                 IN IF cop.ok THEN Ok(cop.ws) ELSE Raise("IndexError", ws)
            ELSE pobj_with_chain(ws, word_node, c.head, c.prep_nodes)

pobj_to_ud(ws, word_node) ==
    LET c == prep_chain(ws, word_node)
    IN IF c.exc # "" THEN Raise(c.exc, ws)
       ELSE IF c.prep_nodes = <<>> THEN Ok(ws)
       ELSE pobj_with_chain(ws, word_node, c.head, c.prep_nodes)

pcomp_to_ud(ws, word_node) ==
    LET prep_node == ws[word_node].governor_word
    IN IF prep_node = None THEN Raise("AttributeError", ws)
       ELSE IF ws[word_node].upos = "ADP" /\ ws[prep_node].upos = "SCONJ"
            THEN Ok(SetDep(ws, word_node, "fixed"))
       ELSE LET gov_node == ws[prep_node].governor_word
            IN IF ws[prep_node].dependency_relation # "prep"
               THEN (IF gov_node = None THEN Raise("AttributeError", ws) ELSE Ok(ws))
               ELSE IF gov_node = None THEN Raise("AttributeError", ws)
               ELSE LET s1 == IF ws[gov_node].lemma = "be"
                              THEN make_copula(ws, word_node, gov_node).ws
                              ELSE LET t1 == SetDep(ws, word_node, "advcl")
                                       t2 == SetGovernor(t1, word_node,
                                                         t1[gov_node].index, gov_node)
                                   IN SetGovernor(t2, prep_node,
                                                  t2[word_node].index, word_node)
                        dep == IF s1[prep_node].upos = "SCONJ" THEN "mark" ELSE "case"
                        s2 == SetDep(s1, prep_node, dep)
                    IN Ok(redirect_dependants(s2, prep_node, word_node))

attr_to_ud(ws, word_node) ==
    LET be_node == ws[word_node].governor_word
    IN IF be_node = None THEN Raise("AttributeError", ws)
       ELSE IF ws[be_node].lemma # "be" THEN Ok(ws)
       ELSE IF find_governed(ws, be_node, "expl") # None
            THEN Ok(SetDep(ws, word_node, "nsubj"))
            ELSE Ok(make_copula(ws, word_node, be_node).ws)

acomp_to_ud(ws, word_node) ==
    LET acomp_node == ws[word_node].governor_word
    IN IF acomp_node = None THEN Raise("AttributeError", ws)
       ELSE IF ws[acomp_node].lemma = "be"
            THEN IF /\ ws[word_node].upos = "VERB"
                    /\ <<"Aspect", "Perf">> \in ws[word_node].features
                 THEN Ok(make_passive(ws, acomp_node, word_node))
                 ELSE Ok(make_copula(ws, word_node, acomp_node).ws)
            ELSE Ok(SetDep(ws, word_node, "xcomp"))

advmod_to_ud(ws, word_node) ==
    IF ws[word_node].upos = "SCONJ"
    THEN LET gov_node == ws[word_node].governor_word
         IN IF gov_node = None THEN Raise("AttributeError", ws)
            ELSE IF ws[gov_node].dependency_relation = "advcl"
                 THEN Ok(SetDep(ws, word_node, "mark"))
                 ELSE Ok(SetUpos(ws, word_node, "ADV"))
    ELSE Ok(ws)

\* conj_to_ud with one fault: a conjunct of a conjunct is left under it
conj_to_ud_nested(ws, word_node) ==
    LET gov_node == ws[word_node].governor_word
    IN IF gov_node = None THEN Raise("AttributeError", ws)
       ELSE LET conj_node == find_governed(ws, gov_node, "cc")
                s1 == IF conj_node # None
                      THEN SetGovernor(ws, conj_node, ws[word_node].index, word_node)
                      ELSE ws
                nsubj_node == IF /\ s1[gov_node].upos = "VERB"
                                 /\ s1[word_node].upos \in NOMINAL
                              THEN find_governed(s1, word_node, "nsubj")
                              ELSE None
                s2 == IF nsubj_node # None
                      THEN LET t1 == SetDep(s1, nsubj_node, "conj")
                               t2 == SetGovernor(t1, nsubj_node, t1[gov_node].index,
                                                 gov_node)
                               t3 == SetDep(t2, word_node, "orphan")
                               t4 == SetGovernor(t3, word_node, t3[nsubj_node].index,
                                                 nsubj_node)
                           IN IF conj_node # None
                              THEN SetGovernor(t4, conj_node, t4[nsubj_node].index,
                                               nsubj_node)
                              ELSE t4
                      ELSE s1
            IN Ok(s2)

conj_to_ud(ws, word_node) ==
    LET gov_node == ws[word_node].governor_word
    IN IF gov_node = None THEN Raise("AttributeError", ws)
       ELSE LET conj_node == find_governed(ws, gov_node, "cc")
                s1 == IF conj_node # None
                      THEN SetGovernor(ws, conj_node, ws[word_node].index, word_node)
                      ELSE ws
                nsubj_node == IF /\ s1[gov_node].upos = "VERB"
                                 /\ s1[word_node].upos \in NOMINAL
                              THEN find_governed(s1, word_node, "nsubj")
                              ELSE None
                s2 == IF nsubj_node # None
                      THEN LET t1 == SetDep(s1, nsubj_node, "conj")
                               t2 == SetGovernor(t1, nsubj_node, t1[gov_node].index,
                                                 gov_node)
                               t3 == SetDep(t2, word_node, "orphan")
                               t4 == SetGovernor(t3, word_node, t3[nsubj_node].index,
                                                 nsubj_node)
                           IN IF conj_node # None
                              THEN SetGovernor(t4, conj_node, t4[nsubj_node].index,
                                               nsubj_node)
                              ELSE t4
                      ELSE s1
            IN IF s2[gov_node].dependency_relation = "conj"
               THEN LET gov_gov_node == s2[gov_node].governor_word
                    IN IF gov_gov_node = None THEN Raise("AttributeError", s2)
                       ELSE Ok(SetGovernor(s2, word_node, s2[gov_gov_node].index,
                                           gov_gov_node))
               ELSE Ok(s2)

npadvmod_to_ud(ws, word_node) ==
    LET gov0 == ws[word_node].governor_word
    IN IF gov0 = None THEN Raise("AttributeError", ws)
       ELSE LET gov_node == IF ws[gov0].dependency_relation = "obl:npmod"
                            THEN ws[gov0].governor_word
                            ELSE gov0
                s1 == SetDep(ws, word_node, "obl:npmod")
            IN IF gov_node = None THEN Raise("AttributeError", s1)
               ELSE Ok(SetGovernor(s1, word_node, s1[gov_node].index, gov_node))

dep_to_ud(ws, word_node) ==
    LET gov_node == ws[word_node].governor_word
    IN IF gov_node = None THEN Raise("AttributeError", ws)
       ELSE IF ws[gov_node].upos = "VERB"
            THEN Ok(SetDep(ws, word_node, "ccomp"))
            ELSE Ok(ws)

\* the body of the loop of spacy_to_ud: the visit of one word
spacy_to_ud(ws, word_node) ==
    LET dep == ws[word_node].dependency_relation
    IN CASE dep = "aux" -> aux_to_ud(ws, word_node)
         [] dep = "oprd" -> oprd_to_ud(ws, word_node)
         [] dep = "amod" -> amod_to_ud(ws, word_node)
         [] dep = "nmod" -> nmod_to_ud(ws, word_node)
         [] dep = "nummod" -> nummod_to_ud(ws, word_node)
         [] dep = "advcl" -> advcl_to_ud(ws, word_node)
         [] dep = "pobj" -> pobj_to_ud(ws, word_node)
         [] dep = "pcomp" -> pcomp_to_ud(ws, word_node)
         [] dep \in {"xcomp", "ccomp"} -> comp_to_ud(ws, word_node)
         [] dep = "attr" -> attr_to_ud(ws, word_node)
         [] dep = "acomp" -> acomp_to_ud(ws, word_node)
         [] dep = "advmod" -> advmod_to_ud(ws, word_node)
         [] dep = "npadvmod" -> npadvmod_to_ud(ws, word_node)
         [] dep = "conj" -> conj_to_ud(ws, word_node)
         [] dep = "dep" -> dep_to_ud(ws, word_node)
         [] OTHER -> Ok(ws)

\* the body of the loop of fix_advmod_cop: the visit of one word
\* fix_advmod_cop with one fault: the loop over the words is not reversed
fix_advmod_cop_ascending(ws, word_node) ==
    LET visited == Len(ws) + 1 - word_node
    IN IF ws[visited].dependency_relation = "advmod"
       THEN LET gov_node == ws[visited].governor_word
            IN IF gov_node = None THEN Raise("AttributeError", ws)
               ELSE IF /\ ws[gov_node].lemma = "be"
                       /\ ws[gov_node].dependency_relation # "cop"
                    THEN Ok(make_copula(ws, visited, gov_node).ws)
                    ELSE Ok(ws)
       ELSE Ok(ws)

fix_advmod_cop(ws, word_node) ==
    IF ws[word_node].dependency_relation = "advmod"
    THEN LET gov_node == ws[word_node].governor_word
         IN IF gov_node = None THEN Raise("AttributeError", ws)
            ELSE IF /\ ws[gov_node].lemma = "be"
                    /\ ws[gov_node].dependency_relation # "cop"
                 THEN Ok(make_copula(ws, word_node, gov_node).ws)
                 ELSE Ok(ws)
    ELSE Ok(ws)

(***************************************************************************)
(* Entity alignment.                                                       *)
(***************************************************************************)
RECURSIVE SlotsIn(_, _, _)
\* the slots of S from j to n, in sentence order
SlotsIn(S, j, n) ==
    IF j > n THEN <<>>
    ELSE (IF j \in S THEN <<j>> ELSE <<>>) \o SlotsIn(S, j + 1, n)

\* find_span_words with one fault: a word that starts where the span starts is
\* left out
find_span_words_strict(ws, spacy_span) ==
    SlotsIn({j \in 1..Len(ws) :
               /\ ws[j].span[1] > spacy_span.start_char
               /\ ws[j].span[2] <= spacy_span.end_char}, 1, Len(ws))

find_span_words(ws, spacy_span) ==
    SlotsIn({j \in 1..Len(ws) :
               /\ ws[j].span[1] >= spacy_span.start_char
               /\ ws[j].span[2] <= spacy_span.end_char}, 1, Len(ws))

Members(seq) == {seq[i] : i \in 1..Len(seq)}

\* add_entity with one fault: the search for the head does not stop at the
\* first word governed from outside the span
add_entity_no_break(ws, spacy_span) ==
    LET span_word_nodes == find_span_words(ws, spacy_span)
        heads == {j \in Members(span_word_nodes) :
                     \/ ws[j].governor_word = None
                     \/ ws[j].governor_word \notin Members(span_word_nodes)}
        phrase_head_word ==
            IF heads = {} THEN None ELSE CHOOSE j \in heads : \A i \in heads : i <= j
    IN [j \in 1..Len(ws) |->
          IF j \notin Members(span_word_nodes) THEN ws[j]
          ELSE IF j \in heads
               THEN LET w == [ws[j] EXCEPT !.ner = [words |-> span_word_nodes,
                                                    span |-> <<spacy_span.start_char,
                                                               spacy_span.end_char>>,
                                                    type |-> spacy_span.label_]]
                    IN IF j = phrase_head_word THEN w
                       ELSE [w EXCEPT !.ner_head_word = phrase_head_word]
               ELSE [ws[j] EXCEPT !.ner_head_word = phrase_head_word]]

\* the body of the loop of add_entities: one entity span
add_entity(ws, spacy_span) ==
    LET span_word_nodes == find_span_words(ws, spacy_span)
        phrase_head_word ==
            First({j \in Members(span_word_nodes) :
                     \/ ws[j].governor_word = None
                     \/ ws[j].governor_word \notin Members(span_word_nodes)})
    IN [j \in 1..Len(ws) |->
          IF j \notin Members(span_word_nodes) THEN ws[j]
          ELSE IF j = phrase_head_word
               THEN [ws[j] EXCEPT !.ner = [words |-> span_word_nodes,
                                           span |-> <<spacy_span.start_char,
                                                      spacy_span.end_char>>,
                                           type |-> spacy_span.label_]]
               ELSE [ws[j] EXCEPT !.ner_head_word = phrase_head_word]]

RECURSIVE add_entities_from(_, _, _)
add_entities_from(ws, ents, e) ==
    IF e > Len(ents) THEN ws
    ELSE add_entities_from(add_entity(ws, ents[e]), ents, e + 1)

add_entities(ws, ents) == add_entities_from(ws, ents, 1)

(***************************************************************************)
(* The conversion, step by step.                                           *)
(***************************************************************************)
\* Convert with one fault: every call starts the counter and the registry of
\* WordNode afresh
Convert_fresh_registry ==
    /\ pc = "idle"
    /\ pending # <<>>
    /\ raw' = Head(pending)
    /\ pending' = Tail(pending)
    /\ doc' = <<>>
    /\ words' = <<>>
    /\ sno' = 1
    /\ k' = 1
    /\ pc' = "tokens"
    /\ wn_count' = 0
    /\ all_wn' = <<>>
    /\ UNCHANGED exc

\* spacy_to_ud_doc is called on the next analysis: a fresh UdDoc, and the
\* SentenceNode of its first sentence
Convert ==
    /\ pc = "idle"
    /\ pending # <<>>
    /\ raw' = Head(pending)
    /\ pending' = Tail(pending)
    /\ doc' = <<>>
    /\ words' = <<>>
    /\ sno' = 1
    /\ k' = 1
    /\ pc' = "tokens"
    /\ UNCHANGED <<exc, wn_count, all_wn>>

\* one turn of the loop of spacy_to_ud_sentence over the raw tokens
MakeWord ==
    /\ pc = "tokens"
    /\ LET spacy_token == raw[sno].toks[k]
           new_word == spacy_to_ud_token(WordNode(spacy_token.i + 1, wn_count),
                                         spacy_token)
       IN /\ words' = Append(words, new_word)
          /\ wn_count' = wn_count + 1
          /\ all_wn' = Append(all_wn, wn_count)
    /\ IF k < Len(raw[sno].toks)
       THEN k' = k + 1 /\ pc' = "tokens"
       ELSE k' = 1 /\ pc' = "resolve"
    /\ UNCHANGED <<pending, raw, doc, sno, exc>>

AddGovernorWord ==
    /\ pc = "resolve"
    /\ LET r == add_governor_word(words)
       IN /\ words' = r.ws
          /\ exc' = r.exc
          /\ pc' = IF r.exc = "" THEN "rules" ELSE "error"
    /\ k' = 1
    /\ UNCHANGED <<pending, raw, doc, sno, wn_count, all_wn>>

\* one turn of the ascending loop of spacy_to_ud
RuleStep ==
    /\ pc = "rules"
    /\ LET r == spacy_to_ud(words, k)
       IN /\ words' = r.ws
          /\ exc' = r.exc
          /\ IF r.exc # "" THEN pc' = "error" /\ k' = k
             ELSE IF k < Len(words) THEN pc' = "rules" /\ k' = k + 1
             ELSE pc' = "cleanup" /\ k' = Len(words)
    /\ UNCHANGED <<pending, raw, doc, sno, wn_count, all_wn>>

\* one turn of the reversed loop of fix_advmod_cop
CleanupStep ==
    /\ pc = "cleanup"
    /\ LET r == fix_advmod_cop(words, k)
       IN /\ words' = r.ws
          /\ exc' = r.exc
          /\ IF r.exc # "" THEN pc' = "error" /\ k' = k
             ELSE IF k > 1 THEN pc' = "cleanup" /\ k' = k - 1
             ELSE pc' = "entities" /\ k' = 1
    /\ UNCHANGED <<pending, raw, doc, sno, wn_count, all_wn>>

\* AddEntities with one fault: the sentence is appended to the document
\* before its entities are aligned
AddEntities_after_append ==
    /\ pc = "entities"
    /\ doc' = Append(doc, words)
    /\ words' = add_entities(words, raw[sno].ents)
    /\ pc' = "append"
    /\ UNCHANGED <<pending, raw, sno, k, exc, wn_count, all_wn>>

AddEntities ==
    /\ pc = "entities"
    /\ words' = add_entities(words, raw[sno].ents)
    /\ pc' = "append"
    /\ UNCHANGED <<pending, raw, doc, sno, k, exc, wn_count, all_wn>>

\* doc.sentences.append(ud_sent), and then the next sentence or the return
AppendSentence ==
    /\ pc = "append"
    /\ doc' = Append(doc, words)
    /\ IF sno < Len(raw)
       THEN sno' = sno + 1 /\ pc' = "tokens" /\ words' = <<>>
       ELSE sno' = sno /\ pc' = "idle" /\ words' = words
    /\ k' = 1
    /\ UNCHANGED <<pending, raw, exc, wn_count, all_wn>>

Next ==
    \/ Convert
    \/ MakeWord
    \/ AddGovernorWord
    \/ RuleStep
    \/ CleanupStep
    \/ AddEntities
    \/ AppendSentence

\* the process before its first call, with the analyses it will convert
InitOn(D) ==
    /\ pending \in {<<d>> : d \in D}
    /\ raw = <<>>
    /\ doc = <<>>
    /\ words = <<>>
    /\ sno = 1
    /\ k = 1
    /\ pc = "idle"
    /\ exc = ""
    /\ wn_count = 0
    /\ all_wn = <<>>

(***************************************************************************)
(* Spec: analyses over a mixed vocabulary of raw tokens.                   *)
(***************************************************************************)
Roots == {Tok("ROOT", "VERB", "x", NoMorph), Tok("ROOT", "AUX", "be", NoMorph)}

Mixed == {Tok("pcomp", "VERB", "x", NoMorph),
          Tok("prep", "ADP", "x", NoMorph),
          Tok("pobj", "NOUN", "x", NoMorph),
          Tok("dobj", "NOUN", "x", NoMorph),
          Tok("advmod", "ADV", "x", NoMorph),
          Tok("acomp", "ADJ", "x", NoMorph)}

Init == InitOn(Docs(Sentences(Roots, Mixed, 0)))

Spec == Init /\ [][Next]_vars

(***************************************************************************)
(* SpecCalls: several conversion calls in one process, each on an analysis *)
(* whose last sentence is a root followed by its dependents.               *)
(***************************************************************************)
Star(n) ==
    [h |-> [j \in 1..n |-> 1],
     a |-> [j \in 1..n |-> IF j = 1 THEN Tok("ROOT", "VERB", "x", NoMorph)
                           ELSE Tok("dobj", "NOUN", "x", NoMorph)],
     ents |-> <<>>]

CallDocs == Docs({Star(n) : n \in 1..MaxWords})

InitCalls ==
    /\ pending \in UNION {[1..n -> CallDocs] : n \in 1..MaxCalls}
    /\ raw = <<>>
    /\ doc = <<>>
    /\ words = <<>>
    /\ sno = 1
    /\ k = 1
    /\ pc = "idle"
    /\ exc = ""
    /\ wn_count = 0
    /\ all_wn = <<>>

SpecCalls == InitCalls /\ [][Next]_vars

(***************************************************************************)
(* SpecExpl: sentences around "be" with expletives, one token longer.      *)
(***************************************************************************)
Copulas == {Tok("ROOT", "AUX", "be", NoMorph)}

Existential == {Tok("expl", "PRON", "it", NoMorph),
                Tok("expl", "PRON", "there", NoMorph),
                Tok("acomp", "ADJ", "x", NoMorph),
                Tok("attr", "NOUN", "x", NoMorph),
                Tok("advmod", "ADV", "x", NoMorph)}

InitExpl ==
    InitOn(Docs(UNION {Bodies(n, Copulas, Existential, 0) : n \in 1..(MaxWords + 1)}))

SpecExpl == InitExpl /\ [][Next]_vars

(***************************************************************************)
(* SpecCopula: complements and modifiers of "be" beside dependents that a  *)
(* copula inversion redirects and dependents that it leaves.               *)
(***************************************************************************)
Predicative == {Tok("attr", "NOUN", "x", NoMorph),
                Tok("acomp", "ADJ", "x", NoMorph),
                Tok("advmod", "ADV", "x", NoMorph),
                Tok("advmod", "AUX", "be", NoMorph),
                Tok("nsubj", "NOUN", "x", NoMorph),
                Tok("aux", "AUX", "x", NoMorph)}

InitCopula == InitOn(Docs(Sentences(Roots, Predicative, 0)))

SpecCopula == InitCopula /\ [][Next]_vars

(***************************************************************************)
(* SpecOuter: clausal complements of "be" beside subjects and expletives.  *)
(***************************************************************************)
Clausal == {Tok("ccomp", "VERB", "x", NoMorph),
            Tok("xcomp", "VERB", "x", NoMorph),
            Tok("nsubj", "NOUN", "x", NoMorph),
            Tok("nsubjpass", "NOUN", "x", NoMorph),
            Tok("csubj", "VERB", "x", NoMorph),
            Tok("expl", "PRON", "there", NoMorph)}

InitOuter == InitOn(Docs(Sentences(Roots, Clausal, 0)))

SpecOuter == InitOuter /\ [][Next]_vars

(***************************************************************************)
(* SpecCleanup: adverbs under "be", in sentences one token longer.         *)
(***************************************************************************)
Adverbial == {Tok("advmod", "ADV", "x", NoMorph),
              Tok("advmod", "AUX", "be", NoMorph),
              Tok("conj", "AUX", "be", NoMorph),
              Tok("expl", "PRON", "there", NoMorph)}

InitCleanup ==
    InitOn(Docs(UNION {Bodies(n, Roots, Adverbial, 0) : n \in 1..(MaxWords + 1)}))

SpecCleanup == InitCleanup /\ [][Next]_vars

(***************************************************************************)
(* SpecPobj: prepositional objects with and without preposition chain.     *)
(***************************************************************************)
Prepositional == {Tok("pobj", "NOUN", "x", NoMorph),
                  Tok("prep", "ADP", "x", NoMorph),
                  Tok("dative", "ADP", "x", NoMorph),
                  Tok("agent", "ADP", "x", NoMorph),
                  Tok("advmod", "ADV", "x", NoMorph)}

InitPobj == InitOn(Docs(Sentences(Roots, Prepositional, 0)))

SpecPobj == InitPobj /\ [][Next]_vars

(***************************************************************************)
(* SpecChain: prepositional objects under chains of prepositions with      *)
(* adverbs, in sentences one token longer.                                 *)
(***************************************************************************)
InitChain ==
    InitOn(Docs(UNION {Bodies(n, Roots, Prepositional, 0) : n \in 1..(MaxWords + 1)}))

SpecChain == InitChain /\ [][Next]_vars

(***************************************************************************)
(* SpecPcomp: prepositional complements, under "be" and under other heads, *)
(* in sentences one token longer.                                          *)
(***************************************************************************)
Complements == {Tok("pcomp", "VERB", "x", NoMorph),
                Tok("prep", "ADP", "x", NoMorph),
                Tok("prep", "SCONJ", "x", NoMorph),
                Tok("advmod", "ADV", "x", NoMorph),
                Tok("expl", "PRON", "there", NoMorph)}

InitPcomp ==
    InitOn(Docs(UNION {Bodies(n, Roots, Complements, 0) : n \in 1..(MaxWords + 1)}))

SpecPcomp == InitPcomp /\ [][Next]_vars

(***************************************************************************)
(* SpecConj: coordinations, nested and flat, in sentences one token        *)
(* longer.                                                                 *)
(***************************************************************************)
Conjuncts == {Tok("conj", "VERB", "x", NoMorph),
              Tok("conj", "NOUN", "x", NoMorph),
              Tok("nsubj", "NOUN", "x", NoMorph),
              Tok("cc", "CCONJ", "x", NoMorph)}

InitConj ==
    InitOn(Docs(UNION {Bodies(n, {Tok("ROOT", "VERB", "x", NoMorph)}, Conjuncts, 0) :
                       n \in 1..(MaxWords + 1)}))

SpecConj == InitConj /\ [][Next]_vars

(***************************************************************************)
(* SpecRoot: sentences whose root can be displaced: by a copula inversion, *)
(* by a passive repair, by a currency swap.                                *)
(***************************************************************************)
DisplacedRoots == {Tok("ROOT", "AUX", "be", NoMorph),
                   Tok("ROOT", "NUM", "x", NoMorph)}

Displacing == {Tok("acomp", "VERB", "x", Perf),
               Tok("acomp", "ADJ", "x", NoMorph),
               Tok("nmod", "SYM", "$", NoMorph),
               Tok("nsubj", "NOUN", "x", NoMorph),
               Tok("xcomp", "VERB", "x", NoMorph),
               Tok("advmod", "ADV", "x", NoMorph)}

InitRoot == InitOn(Docs(Sentences(DisplacedRoots, Displacing, 0)))

SpecRoot == InitRoot /\ [][Next]_vars

(***************************************************************************)
(* SpecPassive: adjectival complements of "be", among them perfect verbs.  *)
(***************************************************************************)
Passive == {Tok("acomp", "VERB", "x", Perf),
            Tok("acomp", "ADJ", "x", NoMorph),
            Tok("nsubj", "NOUN", "x", NoMorph),
            Tok("csubj", "VERB", "x", NoMorph),
            Tok("csubj", "AUX", "be", NoMorph)}

InitPassive == InitOn(Docs(Sentences(Roots, Passive, 0)))

SpecPassive == InitPassive /\ [][Next]_vars

(***************************************************************************)
(* SpecNmod: currency symbols and numbers.                                 *)
(***************************************************************************)
NumberRoots == {Tok("ROOT", "VERB", "x", NoMorph), Tok("ROOT", "NUM", "x", NoMorph)}

Currency == {Tok("nmod", "SYM", "$", NoMorph),
             Tok("nmod", "NOUN", "x", NoMorph),
             Tok("dobj", "NUM", "x", NoMorph),
             Tok("quantmod", "ADV", "x", NoMorph),
             Tok("npadvmod", "NOUN", "x", NoMorph)}

InitNmod == InitOn(Docs(Sentences(NumberRoots, Currency, 0)))

SpecNmod == InitNmod /\ [][Next]_vars

(***************************************************************************)
(* SpecRemap: short sentences over every raw label the converter names.    *)
(***************************************************************************)
RawLabels == {"dobj", "dative", "nsubjpass", "csubjpass", "auxpass", "preconj",
              "prt", "predet", "poss", "relcl", "neg", "quantmod", "parataxis",
              "nsubj", "aux", "oprd", "amod", "nmod", "nummod", "advcl", "pobj",
              "pcomp", "xcomp", "ccomp", "attr", "acomp", "advmod", "npadvmod",
              "conj", "dep", "prep", "agent", "cc", "punct", "mark", "cop", "expl",
              "compound", "flat", "fixed", "case", "csubj", "iobj"}

InitRemap ==
    InitOn(Docs(UNION {Bodies(n, {Tok("ROOT", "VERB", "x", NoMorph)},
                              {Tok(l, "NOUN", "x", NoMorph) : l \in RawLabels}, 0) :
                       n \in 1..MaxRemapWords}))

SpecRemap == InitRemap /\ [][Next]_vars

(***************************************************************************)
(* SpecNer: sentences with entity spans, over tokens of different lengths  *)
(* and spacing.                                                            *)
(***************************************************************************)
Names == {TokL("compound", "PROPN", "x", 1, 1),
          TokL("conj", "PROPN", "x", 2, 0)}

InitNer ==
    InitOn(Docs(Sentences({TokL("ROOT", "VERB", "x", 1, 1)}, Names, MaxEnts)))

SpecNer == InitNer /\ [][Next]_vars

(***************************************************************************)
(* Properties.                                                             *)
(***************************************************************************)
RECURSIVE ReachesRoot(_, _, _)
\* following the governor references from word j ends at a word without
\* governor, within fuel steps
ReachesRoot(ws, j, fuel) ==
    IF ws[j].governor_word = None THEN TRUE
    ELSE IF fuel = 0 THEN FALSE
    ELSE ReachesRoot(ws, ws[j].governor_word, fuel - 1)

IsTree(ws) ==
    /\ Cardinality({j \in 1..Len(ws) : ws[j].governor = 0}) = 1
    /\ \A j \in 1..Len(ws) : ReachesRoot(ws, j, Len(ws) - 1)

\* the governor position and the governor reference of every word agree
Resolved(ws) ==
    \A j \in 1..Len(ws) :
        /\ (ws[j].governor = 0) <=> (ws[j].governor_word = None)
        /\ ws[j].governor_word # None =>
              /\ ws[j].governor_word # j
              /\ ws[ws[j].governor_word].index = ws[j].governor

\* C1: after the rule engine pass (ascending pass and reverse cleanup) on a
\* raw sentence whose head links form a single-rooted tree, the governor
\* relation of the sentence is a tree: one word with governor position 0,
\* and every word reaches it along the governor links.
C1_TreeAfterRuleEngine ==
    pc = "entities" => IsTree(words)

\* C1, for the sentences that open an analysis: there the rule engine gives a
\* tree.
C1_TreeInOpeningSentence ==
    (pc = "entities" /\ sno = 1) => IsTree(words)

\* C2: in every sentence of a converted document the k-th word of the word
\* list has position k.
C2_SentenceLocalPositions ==
    \A s \in 1..Len(doc) : \A j \in 1..Len(doc[s]) : doc[s][j].index = j

\* C3: after governor resolution and after every rule application, in every
\* sentence, the governor position of a word is 0 exactly when it has no
\* governor word, and otherwise its governor word is another word of the
\* sentence whose position is the governor position.
C3_GovernorResolved ==
    /\ pc \in {"rules", "cleanup", "entities", "append"} => Resolved(words)
    /\ \A s \in 1..Len(doc) : Resolved(doc[s])

\* C4: on a raw sentence whose head links form a single-rooted tree with the
\* root labelled ROOT, the rule engine pass raises no error, whatever the
\* other tokens carry: a violated precondition only emits a diagnostic.
C4_RuleEngineRaisesNothing ==
    exc \notin {"AttributeError", "NonTermination"}

\* word b has a dependent with relation expl whose lemma is "there"
HasThere(ws, b) ==
    \E j \in 1..Len(ws) :
        /\ ws[j].governor_word = b
        /\ ws[j].dependency_relation = "expl"
        /\ ws[j].lemma = "there"

\* C5: a word that has a dependent with relation expl and lemma "there" is
\* never relabelled cop by a step of the rule engine.
C5_ExistentialNeverCopula ==
    [][(pc \in {"rules", "cleanup"} =>
         \A b \in 1..Len(words) :
            (HasThere(words, b) /\ words[b].dependency_relation # "cop")
               => words'[b].dependency_relation # "cop")]_vars

\* the visited word is labelled pobj and its governor is labelled neither
\* prep, iobj nor agent
PobjWithoutChain(ws, w) ==
    /\ ws[w].dependency_relation = "pobj"
    /\ ws[w].governor_word # None
    /\ ws[ws[w].governor_word].dependency_relation \notin {"prep", "iobj", "agent"}

\* C6: when the pobj rule visits a word whose governor is labelled neither
\* prep, iobj nor agent, the rule changes no word of the sentence and the
\* ascending pass goes on with the next word.
C6_PobjWithoutChainUnchanged ==
    [][((pc = "rules" /\ PobjWithoutChain(words, k)) =>
         /\ words' = words
         /\ exc' = ""
         /\ IF k < Len(words) THEN pc' = "rules" /\ k' = k + 1
                              ELSE pc' = "cleanup")]_vars

\* C6 witness: the ascending pass has just visited a pobj word without
\* preposition chain and goes on with the word after it.
C6_Witness ==
    /\ pc = "rules"
    /\ k > 1
    /\ PobjWithoutChain(words, k - 1)
    /\ raw[sno].toks[k - 1].dep_ = "pobj"

\* the visited word is an acomp perfect verb whose governor has lemma "be"
PassiveCase(ws, w) ==
    /\ ws[w].dependency_relation = "acomp"
    /\ ws[w].upos = "VERB"
    /\ <<"Aspect", "Perf">> \in ws[w].features
    /\ ws[w].governor_word # None
    /\ ws[ws[w].governor_word].lemma = "be"

GovernedBy(ws, j, g, rel) ==
    /\ ws[j].governor = ws[g].index
    /\ ws[j].governor_word = g
    /\ ws[j].dependency_relation = rel

\* what C7 says of the step from ws to ws2 in which the acomp rule visits V
PassiveRepaired(ws, ws2, V) ==
    LET B == ws[V].governor_word
        nsubj == find_governed(ws, B, "nsubj")
        csubj == find_governed(ws, B, "csubj")
    IN /\ ws2[V].governor = ws[B].governor
       /\ ws2[V].governor_word = ws[B].governor_word
       /\ ws2[V].dependency_relation = ws[B].dependency_relation
       /\ GovernedBy(ws2, B, V, "aux:pass")
       /\ nsubj # None => GovernedBy(ws2, nsubj, V, "nsubj:pass")
       /\ (nsubj = None /\ csubj # None) => GovernedBy(ws2, csubj, V, "csubj:pass")

\* C7: when the acomp rule visits a perfect verb V whose governor B has lemma
\* "be", then right after the rule V has B's former governor and relation, B
\* is governed by V with relation aux:pass, and B's first nsubj dependent
\* (or else its first csubj dependent) is governed by V with relation
\* nsubj:pass (csubj:pass).
C7_PassiveRepair ==
    [][((pc = "rules" /\ PassiveCase(words, k)) => PassiveRepaired(words, words', k))]_vars

\* C7, for the sentences that open an analysis.
C7_PassiveRepairInOpeningSentence ==
    [][((pc = "rules" /\ sno = 1 /\ PassiveCase(words, k))
          => PassiveRepaired(words, words', k))]_vars

\* the visited word is a "$" labelled nmod whose governor is a NUM
CurrencyCase(ws, w) ==
    /\ ws[w].dependency_relation = "nmod"
    /\ ws[w].lemma = "$"
    /\ ws[w].governor_word # None
    /\ ws[ws[w].governor_word].upos = "NUM"

\* C8: when the nmod rule visits a word S with lemma "$" whose governor M has
\* POS NUM, then right after the rule S has M's former governor and relation,
\* M is governed by S with relation nummod, and every other word that was
\* governed by M with a redirectable relation is governed by S; when the
\* condition does not hold the nmod rule changes nothing.
C8_CurrencySwap ==
    [][((pc = "rules" /\ words[k].dependency_relation = "nmod") =>
         IF CurrencyCase(words, k)
         THEN LET S == k
                  M == words[k].governor_word
              IN /\ words'[S].governor = words[M].governor
                 /\ words'[S].governor_word = words[M].governor_word
                 /\ words'[S].dependency_relation = words[M].dependency_relation
                 /\ GovernedBy(words', M, S, "nummod")
                 /\ \A x \in 1..Len(words) \ {S, M} :
                       (/\ words[x].governor_word = M
                        /\ words[x].dependency_relation \in
                              {"prep", "attr", "advcl", "advmod", "acomp", "xcomp",
                               "dep", "acl", "nsubj", "obj", "csubj", "ccomp", "mark",
                               "cop", "npadvmod", "conj", "prataxis", "punct", "cc",
                               "nsubj:outer", "csubj:outer"})
                          => /\ words'[x].governor = words[S].index
                             /\ words'[x].governor_word = S
         ELSE words' = words)]_vars

\* C8 witness: the nmod rule has just swapped a "$" with its number, which
\* had another dependent with a redirectable relation, now governed by "$".
C8_Witness ==
    /\ pc \in {"rules", "cleanup"}
    /\ \E S, M, x \in 1..Len(words) :
          /\ S = (IF pc = "rules" THEN k - 1 ELSE Len(words))
          /\ Cardinality({S, M, x}) = 3
          /\ words[S].lemma = "$"
          /\ words[M].upos = "NUM"
          /\ GovernedBy(words, M, S, "nummod")
          /\ words[x].governor_word = S
          /\ words[x].dependency_relation = "npadvmod"
          /\ raw[sno].toks[x].head_i = raw[sno].toks[M].i

\* the table C9 states
RemapTable ==
    {<<"dobj", "obj">>, <<"dative", "iobj">>, <<"nsubjpass", "nsubj:pass">>,
     <<"csubjpass", "csubj:pass">>, <<"ROOT", "root">>, <<"auxpass", "aux:pass">>,
     <<"preconj", "pre:conj">>, <<"prt", "compound:prt">>, <<"predet", "det:predet">>,
     <<"poss", "nmod:poss">>, <<"relcl", "acl:relcl">>, <<"neg", "advmod">>,
     <<"quantmod", "compound">>, <<"parataxis", "prataxis">>}

\* C9: the initial label of every word is the image of its raw label under
\* the 14-entry table, and a raw label that is not in the table is passed
\* through unchanged.
C9_InitialLabel ==
    pc \in {"tokens", "resolve"} =>
       \A j \in 1..Len(words) :
          LET raw_label == raw[sno].toks[j].dep_
              label == words[j].dependency_relation
          IN /\ \A p \in RemapTable : raw_label = p[1] => label = p[2]
             /\ (\A p \in RemapTable : raw_label # p[1]) => label = raw_label

\* C9 witness: a sentence has been materialized with a root, remapped from
\* ROOT, and a word remapped from parataxis to prataxis.
C9_Witness ==
    /\ pc = "resolve"
    /\ \E i, j \in 1..Len(words) :
          /\ raw[sno].toks[i].dep_ = "ROOT"
          /\ words[i].dependency_relation = "root"
          /\ raw[sno].toks[j].dep_ = "parataxis"
          /\ words[j].dependency_relation = "prataxis"

\* the words whose character span lies within the entity span
SpanWords(ws, ent) ==
    {j \in 1..Len(ws) :
        /\ ent.start_char <= ws[j].span[1]
        /\ ws[j].span[2] <= ent.end_char}

\* the slots of S in sentence order
InOrder(S) ==
    CHOOSE q \in [1..Cardinality(S) -> S] :
        \A a, b \in 1..Cardinality(S) : a < b => q[a] < q[b]

\* the span words whose governor is absent or is not a span word
GovernedFromOutside(ws, S) ==
    {j \in S : ws[j].governor_word = None \/ ws[j].governor_word \notin S}

\* C10: for an entity span, the annotation is attached to the first span word
\* whose governor is absent or not a span word, its member list is the span
\* words in sentence order, and every other span word (also a later one
\* governed from outside the span) gets a back-reference to that head and no
\* annotation for this entity.
C10_EntityHead ==
    pc = "append" =>
       \A e \in 1..Len(raw[sno].ents) :
          LET ent == raw[sno].ents[e]
              S == SpanWords(words, ent)
              H == GovernedFromOutside(words, S)
              annotation == [words |-> InOrder(S),
                             span |-> <<ent.start_char, ent.end_char>>,
                             type |-> ent.label_]
          IN H # {} =>
                \E h \in H :
                   /\ \A j \in H : h <= j
                   /\ words[h].ner = annotation
                   /\ \A j \in S \ {h} :
                         /\ words[j].ner_head_word = h
                         /\ words[j].ner # annotation

\* C10 witness: an entity span of several words, two of them governed from
\* outside the span, has been aligned: the first of the two carries the
\* annotation and the later one refers back to it.
C10_Witness ==
    /\ pc = "append"
    /\ \E e \in 1..Len(raw[sno].ents) :
          LET S == SpanWords(words, raw[sno].ents[e])
              H == GovernedFromOutside(words, S)
          IN \E h, j \in H :
                /\ h < j
                /\ words[h].ner.type = "PERSON"
                /\ Len(words[h].ner.words) = Cardinality(S)
                /\ words[j].ner_head_word = h


\* word j carries the annotation of the entity span ent
Carries(ws, j, ent) ==
    /\ ws[j].ner.type = ent.label_
    /\ ws[j].ner.span = <<ent.start_char, ent.end_char>>

\* C11: after entity alignment of a sentence whose governor relation is a
\* tree (the entity spans never overlap), every entity span that contains a
\* word has exactly one member word carrying its annotation, and the head
\* back-reference of every other member word is that word, a member of the
\* span.
C11_OneHeadPerEntity ==
    (pc = "append" /\ IsTree(words)) =>
       \A e \in 1..Len(raw[sno].ents) :
          LET ent == raw[sno].ents[e]
              S == SpanWords(words, ent)
              C == {j \in S : Carries(words, j, ent)}
          IN S # {} =>
                /\ Cardinality(C) = 1
                /\ \A j \in S \ C : words[j].ner_head_word \in C

\* C11 witness: a tree-shaped sentence with two entity spans has been
\* aligned, one of the spans having a member that refers back to its head.
C11_Witness ==
    /\ pc = "append"
    /\ IsTree(words)
    /\ Len(raw[sno].ents) = 2
    /\ \E j \in 1..Len(words) :
          /\ words[j].ner_head_word # None
          /\ words[j].ner_head_word # j
          /\ words[words[j].ner_head_word].ner.type = "PERSON"


\* the identifiers of the word nodes of the document under construction, in
\* creation order
RECURSIVE IdsOf(_)
IdsOf(sentences) ==
    IF sentences = <<>> THEN <<>>
    ELSE [j \in 1..Len(Head(sentences)) |-> Head(sentences)[j].wn_id]
            \o IdsOf(Tail(sentences))

LiveIds == IdsOf(IF pc = "idle" THEN doc ELSE Append(doc, words))

\* C12: across the conversion calls of one process every word node has an
\* identifier different from every other node ever created, identifiers
\* increase strictly in creation order, the registry of created nodes has as
\* many entries as the counter says, and the registry only grows: no entry
\* is ever removed or replaced.
C12_IdentifiersAndRegistry ==
    /\ [](/\ Len(all_wn) = wn_count
          /\ \A i, j \in 1..Len(all_wn) : i < j => all_wn[i] < all_wn[j]
          /\ \A i, j \in 1..Len(LiveIds) : i < j => LiveIds[i] < LiveIds[j]
          /\ \A i \in 1..Len(LiveIds) : LiveIds[i] \in Members(all_wn))
    /\ [][(/\ Len(all_wn') >= Len(all_wn)
           /\ SubSeq(all_wn', 1, Len(all_wn)) = all_wn
           /\ wn_count' >= wn_count)]_vars

\* C12 witness: a later call of the process has created its words after the
\* words of an earlier call.
C12_Witness ==
    /\ pc = "resolve"
    /\ Len(words) >= 2
    /\ wn_count > Len(LiveIds)
    /\ words[1].wn_id >= 1
    /\ words[2].wn_id = words[1].wn_id + 1


\* what can be seen of a sentence on which token loop, governor resolution
\* and entity alignment have run
Completed(ws) ==
    /\ Len(ws) = Len(raw[sno].toks)
    /\ \A j \in 1..Len(ws) : ws[j].governor # 0 => ws[j].governor_word # None
    /\ \A e \in 1..Len(raw[sno].ents) :
          LET S == SpanWords(ws, raw[sno].ents[e])
          IN GovernedFromOutside(ws, S) # {} =>
                \E j \in S : Carries(ws, j, raw[sno].ents[e])

\* C13: a sentence is appended to its document only after governor
\* resolution, rule engine pass and entity alignment (the conversion is at
\* its append step and the sentence appended is the sentence converted), and
\* converting a later sentence changes no field of a word of a sentence that
\* was already appended.
C13_AppendedSentencesFrozen ==
    [][(/\ pc # "idle" =>
              /\ Len(doc') >= Len(doc)
              /\ SubSeq(doc', 1, Len(doc)) = doc
        /\ (pc # "idle" /\ doc' # doc) =>
              /\ pc = "append"
              /\ Completed(words)
              /\ doc' = Append(doc, words))]_vars

\* C13 witness: the second sentence of an analysis, with an entity, has been
\* converted and appended after the first.
C13_Witness ==
    /\ pc = "idle"
    /\ Len(doc) = 2
    /\ Len(doc[2]) >= 2
    /\ \E j \in 1..Len(doc[2]) : doc[2][j].ner.type = "PERSON"
    /\ \E j \in 1..Len(doc[2]) : doc[2][j].dependency_relation # raw[2].toks[j].dep_


\* the step about to be taken is one make_copula call on (w, its governor):
\* the attr rule or the acomp rule of the ascending pass, or a turn of the
\* reverse cleanup
CopulaCall(ws, w) ==
    LET be == ws[w].governor_word
        rel == ws[w].dependency_relation
    IN /\ be # None
       /\ ws[be].lemma = "be"
       /\ \/ /\ pc = "rules"
             /\ rel = "attr"
             /\ \A x \in 1..Len(ws) :
                   ~(ws[x].governor_word = be /\ ws[x].dependency_relation = "expl")
          \/ /\ pc = "rules"
             /\ rel = "acomp"
             /\ ~(ws[w].upos = "VERB" /\ <<"Aspect", "Perf">> \in ws[w].features)
          \/ /\ pc = "cleanup"
             /\ rel = "advmod"
             /\ ws[be].dependency_relation # "cop"

\* the make_copula call on (w, its governor) reports success
CopulaSucceeds(ws, w) ==
    LET expl_node == find_governed(ws, ws[w].governor_word, "expl")
    IN expl_node = None \/ ws[expl_node].lemma # "there"

\* what C14 says of a successful make-copula call on (head, be)
CopulaEffect(ws, ws2, head, be) ==
    /\ ws2[head].governor = ws[be].governor
    /\ ws2[head].governor_word = ws[be].governor_word
    /\ ws2[head].dependency_relation = ws[be].dependency_relation
    /\ GovernedBy(ws2, be, head, "cop")
    /\ ws2[be].upos = "AUX"
    /\ \A x \in 1..Len(ws) \ {head, be} :
          IF /\ ws[x].governor_word = be
             /\ ws[x].dependency_relation \in
                   {"prep", "attr", "advcl", "advmod", "acomp", "xcomp", "dep", "acl",
                    "nsubj", "obj", "csubj", "ccomp", "mark", "cop", "npadvmod", "conj",
                    "prataxis", "punct", "cc", "nsubj:outer", "csubj:outer"}
          THEN /\ ws2[x].governor = ws[head].index
               /\ ws2[x].governor_word = head
               /\ ws2[x].dependency_relation = ws[x].dependency_relation
          ELSE /\ ws2[x].governor = ws[x].governor
               /\ ws2[x].governor_word = ws[x].governor_word
               /\ ws2[x].dependency_relation = ws[x].dependency_relation

\* C14: a successful make-copula call on (head, be) gives head be's former
\* governor and relation, makes be the cop dependent of head with POS AUX,
\* moves to head every other word governed by be with a redirectable
\* relation, and leaves governor and relation of every other word, among
\* them the dependents of be with another relation.
C14_CopulaEffect ==
    [][((pc \in {"rules", "cleanup"} /\ CopulaCall(words, k) /\ CopulaSucceeds(words, k))
          => CopulaEffect(words, words', k, words[k].governor_word))]_vars

\* C14, for the sentences that open an analysis.
C14_CopulaEffectInOpeningSentence ==
    [][((pc \in {"rules", "cleanup"} /\ sno = 1
           /\ CopulaCall(words, k) /\ CopulaSucceeds(words, k))
          => CopulaEffect(words, words', k, words[k].governor_word))]_vars


\* C15: whenever the xcomp/ccomp rule, visiting a word W whose governor has
\* lemma "be", appends ":outer" to the relation of a word, then right after
\* the rule that word is governed by W and the former governor of W is the
\* cop dependent of W.
C15_OuterSubjectMoved ==
    [][((/\ pc = "rules"
         /\ words[k].dependency_relation \in {"xcomp", "ccomp"}
         /\ words[k].governor_word # None
         /\ words[words[k].governor_word].lemma = "be")
          => \A s \in 1..Len(words) :
                words'[s].dependency_relation = words[s].dependency_relation \o ":outer"
                   => /\ words'[s].governor_word = k
                      /\ words'[s].governor = words[k].index
                      /\ GovernedBy(words', words[k].governor_word, k, "cop"))]_vars


RECURSIVE AscendingFrom(_, _)
\* the ascending pass from word j on
AscendingFrom(ws, j) ==
    IF j > Len(ws) THEN ws ELSE AscendingFrom(spacy_to_ud(ws, j).ws, j + 1)

\* the sentence under conversion as it was when the ascending pass started
AtRulesStart ==
    add_governor_word(
        [j \in 1..Len(words) |->
            spacy_to_ud_token(WordNode(raw[sno].toks[j].i + 1, words[j].wn_id),
                              raw[sno].toks[j])]).ws

\* the sentence under conversion as it was when the reverse cleanup started
AtCleanupStart == AscendingFrom(AtRulesStart, 1)

AdvmodDependents(ws, B) ==
    {x \in 1..Len(ws) : ws[x].governor_word = B /\ ws[x].dependency_relation = "advmod"}

\* a "be" that is not cop, is not existential and has two or more advmod
\* dependents, none of them a "be"
SeveralAdverbs(ws, B) ==
    /\ ws[B].lemma = "be"
    /\ ws[B].dependency_relation # "cop"
    /\ ~HasThere(ws, B)
    /\ Cardinality(AdvmodDependents(ws, B)) >= 2
    /\ \A x \in AdvmodDependents(ws, B) : ws[x].lemma # "be"

RECURSIVE ReverseFrom(_, _, _)
\* the reverse cleanup from word j down to word last
ReverseFrom(ws, j, last) ==
    IF j < last THEN ws ELSE ReverseFrom(fix_advmod_cop(ws, j).ws, j - 1, last)


\* a "be" that is itself an advmod dependent of a word with lemma "be": the
\* cleanup can make it the head of that word and hand it that word's adverbs
AdverbOfBe(ws, B) ==
    /\ ws[B].dependency_relation = "advmod"
    /\ ws[B].governor_word # None
    /\ ws[ws[B].governor_word].lemma = "be"

PobjWithChain(ws, W) ==
    /\ ws[W].dependency_relation = "pobj"
    /\ prep_chain(ws, W).exc = ""
    /\ prep_chain(ws, W).prep_nodes # <<>>
    /\ prep_chain(ws, W).head # None

\* what C17 says of the step from ws to ws2 in which the pobj rule visits W
PobjEffect(ws, ws2, W) ==
    LET P == prep_chain(ws, W).prep_nodes
        H == prep_chain(ws, W).head
        closest == ws[P[1]].dependency_relation
    IN /\ \A i \in 1..Len(P) :
             /\ GovernedBy(ws2, P[i], W, "case")
             /\ \A adv \in 1..Len(ws) :
                   (/\ ws[adv].governor_word = P[i]
                    /\ ws[adv].dependency_relation = "advmod"
                    /\ \A y \in 1..(adv - 1) :
                          ~(ws[y].governor_word = P[i]
                              /\ ws[y].dependency_relation = "advmod"))
                      => /\ ws2[adv].governor_word = W
                         /\ ws2[adv].governor = ws[W].index
       /\ \/ /\ ws[H].lemma = "be"
             /\ GovernedBy(ws2, H, W, "cop")
             /\ ws2[W].governor = ws[H].governor
             /\ ws2[W].governor_word = ws[H].governor_word
             /\ ws2[W].dependency_relation = ws[H].dependency_relation
          \/ /\ closest = "prep"
             /\ ws[H].upos \in {"NOUN", "PRON", "PROPN"}
             /\ GovernedBy(ws2, W, H, "nmod")
          \/ /\ closest = "prep"
             /\ ws[H].upos \notin {"NOUN", "PRON", "PROPN"}
             /\ GovernedBy(ws2, W, H, "obl")
          \/ /\ closest = "iobj"
             /\ GovernedBy(ws2, W, H, "obl")
          \/ /\ closest = "agent"
             /\ GovernedBy(ws2, W, H, "obl:agent")

\* C17: when the pobj rule visits a word W with a non-empty preposition
\* chain P and chain head H, then right after the rule every element of P is
\* governed by W with relation case, each element's first advmod dependent
\* is governed by W, and W either is the new copula head over H (holding
\* H's former governor and relation) or is governed by H with relation nmod,
\* obl or obl:agent as the closest element of the chain and H's POS say.
C17_PobjEffect ==
    [][((pc = "rules" /\ PobjWithChain(words, k)) => PobjEffect(words, words', k))]_vars

\* C17 witness: the pobj rule has just visited a word under a preposition
\* that had an adverb: the preposition is its case dependent, the adverb is
\* governed by it, and it is an obl or nmod dependent of the chain head.
C17_Witness ==
    /\ pc \in {"rules", "cleanup"}
    /\ sno = 1
    /\ \E W, p, adv, H \in 1..Len(words) :
          /\ W = (IF pc = "rules" THEN k - 1 ELSE Len(words))
          /\ raw[sno].toks[W].dep_ = "pobj"
          /\ raw[sno].toks[p].dep_ = "prep"
          /\ raw[sno].toks[W].head_i = raw[sno].toks[p].i
          /\ raw[sno].toks[adv].dep_ = "advmod"
          /\ raw[sno].toks[adv].head_i = raw[sno].toks[p].i
          /\ raw[sno].toks[p].head_i = raw[sno].toks[H].i
          /\ GovernedBy(words, p, W, "case")
          /\ words[adv].governor_word = W
          /\ words[W].governor_word = H
          /\ words[W].dependency_relation \in {"obl", "nmod"}


\* the pcomp rule is about to visit word W, which is not an ADP under an
\* SCONJ and whose governor is labelled prep and has a governor
PcompCase(ws, W) ==
    /\ ws[W].dependency_relation = "pcomp"
    /\ ws[W].governor_word # None
    /\ ~(ws[W].upos = "ADP" /\ ws[ws[W].governor_word].upos = "SCONJ")
    /\ ws[ws[W].governor_word].dependency_relation = "prep"
    /\ ws[ws[W].governor_word].governor_word # None

\* what C18 says of the step from ws to ws2 in which the pcomp rule visits W
PcompEffect(ws, ws2, W) ==
    LET prep == ws[W].governor_word
    IN /\ GovernedBy(ws2, prep, W, IF ws[prep].upos = "SCONJ" THEN "mark" ELSE "case")
       /\ ws2[W].dependency_relation # "pcomp"
       /\ \A x \in 1..Len(ws) \ {W, prep} :
             (/\ ws[x].governor_word = prep
              /\ ws[x].dependency_relation \in
                    {"prep", "attr", "advcl", "advmod", "acomp", "xcomp", "dep", "acl",
                     "nsubj", "obj", "csubj", "ccomp", "mark", "cop", "npadvmod", "conj",
                     "prataxis", "punct", "cc", "nsubj:outer", "csubj:outer"})
                => /\ ws2[x].governor_word = W
                   /\ ws2[x].governor = ws[W].index

\* C18: when the pcomp rule visits a word W that is not the ADP-under-SCONJ
\* case and whose governor prep is labelled prep, then right after the rule,
\* whether the governor of prep has lemma "be" or not, prep is governed by W
\* with relation mark (POS SCONJ) or case, W is no longer labelled pcomp and
\* every other redirectable dependent of prep is governed by W.
C18_PcompEffect ==
    [][((pc = "rules" /\ PcompCase(words, k)) => PcompEffect(words, words', k))]_vars

\* C18, when the governor of prep is not a "be".
C18_PcompEffectWithoutBe ==
    [][((/\ pc = "rules"
         /\ PcompCase(words, k)
         /\ words[words[words[k].governor_word].governor_word].lemma # "be")
          => PcompEffect(words, words', k))]_vars


\* the relations the ascending pass has a rule for
RuleLabels ==
    {"aux", "oprd", "amod", "nmod", "nummod", "advcl", "pobj", "pcomp", "xcomp",
     "ccomp", "attr", "acomp", "advmod", "npadvmod", "conj", "dep"}

\* the orphan condition of the conj rule on word w
OrphanCondition(ws, w) ==
    /\ ws[ws[w].governor_word].upos = "VERB"
    /\ ws[w].upos \in {"NOUN", "PRON", "PROPN"}
    /\ \E s \in 1..Len(ws) :
          ws[s].governor_word = w /\ ws[s].dependency_relation = "nsubj"

\* the chains of three or more conjuncts at ascending positions: every
\* conjunct after the first is labelled conj and governed by the one before
\* it, the first is not labelled conj, and none meets the orphan condition
ConjChains(ws) ==
    {c \in UNION {[1..n -> 1..Len(ws)] : n \in 3..Len(ws)} :
        /\ ws[c[1]].dependency_relation # "conj"
        /\ \A i \in 2..Len(c) :
              /\ c[i - 1] < c[i]
              /\ ws[c[i]].dependency_relation = "conj"
              /\ ws[c[i]].governor_word = c[i - 1]
              /\ ~OrphanCondition(ws, c[i])}

\* C19: for a raw chain of three or more conjuncts at ascending positions,
\* in a sentence where no rule but the conj rule applies and no word
\* labelled conj meets the orphan condition (the orphan branch on a conjunct
\* outside the chain can relabel its nsubj dependent, the first word of the
\* chain, conj), after the ascending pass every conjunct after the first is
\* governed by the first and still labelled conj, whatever the depth of the
\* nesting.
C19_ConjunctsFlattened ==
    (pc = "cleanup" /\ k = Len(words)) =>
       ((\A j \in 1..Len(words) :
            /\ AtRulesStart[j].dependency_relation \notin RuleLabels \ {"conj"}
            /\ AtRulesStart[j].dependency_relation = "conj"
                  => ~OrphanCondition(AtRulesStart, j))
          => \A c \in ConjChains(AtRulesStart) :
                \A i \in 2..Len(c) :
                   /\ words[c[i]].governor_word = c[1]
                   /\ words[c[i]].dependency_relation = "conj")

\* C19 witness: the ascending pass has ended on an opening sentence with a
\* chain of four conjuncts nested three deep, now flat.
C19_Witness ==
    /\ pc = "cleanup"
    /\ k = Len(words)
    /\ \A j \in 1..Len(words) :
          AtRulesStart[j].dependency_relation \notin RuleLabels \ {"conj"}
    /\ \E c \in ConjChains(AtRulesStart) :
          /\ Len(c) = 4
          /\ sno = 1
          /\ GovernedBy(words, c[4], c[1], "conj")


\* the words without governor position
Ungoverned(ws) == {j \in 1..Len(ws) : ws[j].governor = 0}

\* C20: in every state of the rule engine pass on a sentence whose raw root
\* is its only token labelled ROOT, a word has governor position 0 exactly
\* when its relation is root, and the number of words with governor
\* position 0 never changes during the pass.
C20_RootIffUngoverned ==
    /\ [](pc \in {"rules", "cleanup", "entities"} =>
            \A j \in 1..Len(words) :
               words[j].governor = 0 <=> words[j].dependency_relation = "root")
    /\ [][(pc \in {"rules", "cleanup"} =>
             Cardinality(Ungoverned(words')) = Cardinality(Ungoverned(words)))]_vars

\* C20 witness: during the pass the root relation has moved, with the
\* governor position 0, from the raw root to another word.
C20_Witness ==
    /\ pc \in {"rules", "cleanup"}
    /\ \E r, j \in 1..Len(words) :
          /\ r # j
          /\ raw[sno].toks[r].dep_ = "ROOT"
          /\ words[r].governor # 0
          /\ words[r].dependency_relation = "aux:pass"
          /\ words[j].governor = 0
          /\ words[j].dependency_relation = "root"


\* the walk of prep_chain from word W ends and gives a chain that is not empty
ChainFound(ws, W) ==
    /\ ws[W].dependency_relation = "pobj"
    /\ prep_chain(ws, W).exc = ""
    /\ prep_chain(ws, W).prep_nodes # <<>>

\* C21: whenever the pobj rule visits a word whose preposition chain is not
\* empty, the relation of the closest element of the chain is prep, iobj or
\* agent, and unless the rule raises the word does not come out of the rule
\* as it went in: the "Unknown dep from PREP" branch is never taken.
C21_UnknownPrepUnreachable ==
    [][((pc = "rules" /\ ChainFound(words, k)) =>
          /\ words[prep_chain(words, k).prep_nodes[1]].dependency_relation
                \in {"prep", "iobj", "agent"}
          /\ pc' # "error" => words'[k] # words[k])]_vars

\* C21 witness: the pobj rule has just visited a word under an agent or a
\* dative marker, the only element of its chain, which is now its case
\* dependent.
C21_Witness ==
    /\ pc = "rules"
    /\ k > 1
    /\ raw[sno].toks[k - 1].dep_ = "pobj"
    /\ \E p \in 1..Len(words) :
          /\ raw[sno].toks[p].dep_ \in {"agent", "dative"}
          /\ raw[sno].toks[k - 1].head_i = raw[sno].toks[p].i
          /\ AtRulesStart[k - 1].governor_word = p
          /\ GovernedBy(words, p, k - 1, "case")
          /\ words[k - 1].dependency_relation \in {"obl", "obl:agent"}

====
